---- MODULE Spec2Model ----
(***************************************************************************)
(* Model of the budget simulator: budget_simulator.py (V1) and             *)
(* budget_simulator_v2.py (V2).                                            *)
(*                                                                         *)
(* Amounts are Python floats in the source.  They are modelled as exact    *)
(* rationals <<n, d>> in lowest terms with d > 0, so binary rounding,      *)
(* inf and nan are outside the model.  Text typed at a prompt is a         *)
(* sequence of one-character strings.                                      *)
(***************************************************************************)
EXTENDS Integers, Sequences, FiniteSets, TLC

(***************************************************************************)
(* Exact rational arithmetic standing for float arithmetic.                *)
(***************************************************************************)
Abs(x) ==
    IF x < 0 THEN -x ELSE x

RECURSIVE GCD(_, _)
GCD(a, b) ==
    IF b = 0 THEN a ELSE GCD(b, a % b)

Rat(n, d) ==
    LET s == IF d < 0 THEN -1 ELSE 1
        g == GCD(Abs(n), Abs(d))
    IN  <<(s * n) \div g, (s * d) \div g>>

RInt(n) ==
    <<n, 1>>

\* Sums and comparisons go through the least common denominator, and
\* products are reduced crosswise first, to keep the integers small.
LCD(a, b) ==
    (a[2] \div GCD(a[2], b[2])) * b[2]

OnLCD(a, b) ==
    a[1] * (LCD(a, b) \div a[2])

RAdd(a, b) ==
    Rat(OnLCD(a, b) + OnLCD(b, a), LCD(a, b))

RSub(a, b) ==
    Rat(OnLCD(a, b) - OnLCD(b, a), LCD(a, b))

RMul(a, b) ==
    LET x == Rat(a[1], b[2])
        y == Rat(b[1], a[2])
    IN  Rat(x[1] * y[1], x[2] * y[2])

RDiv(a, b) ==
    RMul(a, Rat(b[2], b[1]))

RLt(a, b) ==
    OnLCD(a, b) < OnLCD(b, a)

RGe(a, b) ==
    OnLCD(a, b) >= OnLCD(b, a)

\* round(x, 2): the nearest multiple of 1/100, an exact tie going to the even
\* multiple (Python 3 rounds half to even).
round2(x) ==
    LET num == x[1] * 100
        q   == num \div x[2]
        r   == num % x[2]
        up  == \/ 2 * r > x[2]
               \/ (2 * r = x[2] /\ q % 2 = 1)
    IN  Rat(IF up THEN q + 1 ELSE q, 100)

(***************************************************************************)
(* Text: str.strip(), float(text), int(text), and date.isoformat().        *)
(***************************************************************************)
\* An optional value is a sequence of length at most one.
None == <<>>

Some(x) == <<x>>

\* The outcome of a call: a value returned or an exception raised.
Returned(v) == [exc |-> "", val |-> <<v>>]

Raised(e) == [exc |-> e, val |-> <<>>]

Digits == <<"0", "1", "2", "3", "4", "5", "6", "7", "8", "9">>

IsDigit(c) ==
    \E i \in 1..10 : Digits[i] = c

DigitValue(c) ==
    (CHOOSE i \in 1..10 : Digits[i] = c) - 1

RECURSIVE LStrip(_)
LStrip(s) ==
    IF s # <<>> /\ Head(s) = " " THEN LStrip(Tail(s)) ELSE s

RECURSIVE RStrip(_)
RStrip(s) ==
    IF s # <<>> /\ s[Len(s)] = " " THEN RStrip(SubSeq(s, 1, Len(s) - 1)) ELSE s

strip(s) ==
    RStrip(LStrip(s))

AllDigits(s) ==
    \A i \in 1..Len(s) : IsDigit(s[i])

RECURSIVE DigitsValue(_)
DigitsValue(s) ==
    IF s = <<>> THEN 0
    ELSE 10 * DigitsValue(SubSeq(s, 1, Len(s) - 1)) + DigitValue(s[Len(s)])

RECURSIVE Pow10(_)
Pow10(k) ==
    IF k = 0 THEN 1 ELSE 10 * Pow10(k - 1)

Unsigned(s) ==
    IF s # <<>> /\ Head(s) \in {"+", "-"} THEN Tail(s) ELSE s

SignOf(s) ==
    IF s # <<>> /\ Head(s) = "-" THEN -1 ELSE 1

\* int(text): optional sign, then one or more decimal digits.
int_parse(s) ==
    LET body == Unsigned(s)
    IN  IF body # <<>> /\ AllDigits(body)
        THEN Returned(SignOf(s) * DigitsValue(body))
        ELSE Raised("ValueError")

\* float(text): optional sign, decimal digits with at most one point and at
\* least one digit.
float_parse(s) ==
    LET body   == Unsigned(s)
        points == {i \in 1..Len(body) : body[i] = "."}
    IN  IF points = {}
        THEN IF body # <<>> /\ AllDigits(body)
             THEN Returned(Rat(SignOf(s) * DigitsValue(body), 1))
             ELSE Raised("ValueError")
        ELSE LET p    == CHOOSE i \in points : TRUE
                 whole == SubSeq(body, 1, p - 1)
                 frac  == SubSeq(body, p + 1, Len(body))
             IN  IF /\ Cardinality(points) = 1
                    /\ AllDigits(whole) /\ AllDigits(frac)
                    /\ Len(whole) + Len(frac) > 0
                 THEN Returned(Rat(SignOf(s) * (DigitsValue(whole) * Pow10(Len(frac))
                                                 + DigitsValue(frac)),
                                   Pow10(Len(frac))))
                 ELSE Raised("ValueError")

\* The decimal digits of n >= 0, zero-padded on the left to the given width.
RECURSIVE Padded(_, _)
Padded(n, width) ==
    IF width = 0 THEN <<>>
    ELSE Append(Padded(n \div 10, width - 1), Digits[(n % 10) + 1])

\* date.isoformat(): YYYY-MM-DD.
isoformat(d) ==
    Padded(d.year, 4) \o <<"-">> \o Padded(d.month, 2) \o <<"-">> \o Padded(d.day, 2)

(***************************************************************************)
(* Calendar: datetime.date and add_months.                                 *)
(***************************************************************************)
\* The proleptic Gregorian calendar of datetime.date.
GregorianLeap(y) ==
    \/ y % 400 = 0
    \/ (y % 4 = 0 /\ y % 100 # 0)

GregorianDaysIn(y, mo) ==
    CASE mo \in {4, 6, 9, 11} -> 30
      [] mo = 2 -> IF GregorianLeap(y) THEN 29 ELSE 28
      [] OTHER -> 31

\* date(y, mo, day): the constructor rejects what is not a calendar date.
date(y, mo, day) ==
    IF /\ y \in 1..9999
       /\ mo \in 1..12
       /\ day \in 1..GregorianDaysIn(y, mo)
    THEN Returned([year |-> y, month |-> mo, day |-> day])
    ELSE Raised("ValueError")

Min(a, b) ==
    IF a < b THEN a ELSE b

\* Variant: every fourth year taken as a leap year.
days_in_month_julian(y, mo) ==
    <<31, IF y % 4 = 0 THEN 29 ELSE 28,
      31, 30, 31, 30, 31, 31, 30, 31, 30, 31>>[mo]

days_in_month(y, mo) ==
    <<31, IF y % 4 = 0 /\ (y % 100 # 0 \/ y % 400 = 0) THEN 29 ELSE 28,
      31, 30, 31, 30, 31, 31, 30, 31, 30, 31>>[mo]

\* Variant: the year carry computed from the one-based month.
add_months_carry(d, months) ==
    LET y   == d.year + ((d.month + months) \div 12)
        mo  == ((d.month - 1 + months) % 12) + 1
        day == Min(d.day, days_in_month(y, mo))
    IN  date(y, mo, day)

add_months(d, months) ==
    LET y   == d.year + ((d.month - 1 + months) \div 12)
        mo  == ((d.month - 1 + months) % 12) + 1
        day == Min(d.day, days_in_month(y, mo))
    IN  date(y, mo, day)

(***************************************************************************)
(* Cash-flow calculation.                                                  *)
(***************************************************************************)
WEEKS_PER_YEAR == 52

MONTHS_PER_YEAR == 12

weekly_gross(rate, hours, othours, otmult) ==
    LET base_pay == RMul(rate, hours)
        ot_pay   == RMul(RMul(rate, otmult), othours)
    IN  RAdd(base_pay, ot_pay)

\* Variant: four weeks to the month.
monthly_from_weekly_four(weekly_amount) ==
    RMul(weekly_amount, RInt(4))

monthly_from_weekly(weekly_amount) ==
    RMul(weekly_amount, RDiv(RInt(WEEKS_PER_YEAR), RInt(MONTHS_PER_YEAR)))

tax_rate_of(percent) ==
    RDiv(percent, RInt(100))

net_of(gross, rate) ==
    RMul(gross, RSub(RInt(1), rate))

expenses_of(outgoings, loan, isa) ==
    RAdd(RAdd(outgoings, loan), isa)

leftover_of(net, expenses) ==
    RSub(net, expenses)

(***************************************************************************)
(* The input boundary: one pass of the while loop of ask_float / ask_int.  *)
(* A pass either returns a value, prints a message and prompts again, or   *)
(* lets an exception other than ValueError escape.                         *)
(***************************************************************************)
AskReturn(v) == [kind |-> "return", val |-> <<v>>, msg |-> ""]

AskRetry(text) == [kind |-> "retry", val |-> <<>>, msg |-> text]

AskCrash(e) == [kind |-> "crash", val |-> <<>>, msg |-> e]

\* budget_simulator_v2.py
ask_float(raw, min_value) ==
    LET parsed == float_parse(strip(raw))
    IN  IF parsed.exc = "ValueError"
        THEN AskRetry("Please enter a valid number")
        ELSE LET value == parsed.val[1]
             IN  IF min_value # None /\ RLt(value, min_value[1])
                 THEN AskRetry("Please enter a number >= min_value")
                 ELSE AskReturn(value)

ask_int(raw, min_value) ==
    LET parsed == int_parse(strip(raw))
    IN  IF parsed.exc = "ValueError"
        THEN AskRetry("Please enter a valid whole number")
        ELSE LET value == parsed.val[1]
             IN  IF min_value # None /\ value < min_value[1]
                 THEN AskRetry("Please enter a whole number >= min_value")
                 ELSE AskReturn(value)

\* budget_simulator.py: the test reads "min_value is None and value < min_value".
\* With a min_value the left operand is false and the value is returned; with
\* None the comparison with None raises TypeError, which the except clause
\* does not catch.
ask_float_v1(raw, min_value) ==
    LET parsed == float_parse(strip(raw))
    IN  IF parsed.exc = "ValueError"
        THEN AskRetry("please enter a valid number")
        ELSE IF min_value = None
             THEN AskCrash("TypeError")
             ELSE AskReturn(parsed.val[1])

ask_int_v1(raw, min_value) ==
    LET parsed == int_parse(strip(raw))
    IN  IF parsed.exc = "ValueError"
        THEN AskRetry("please enter a valid whole number")
        ELSE IF min_value = None
             THEN AskCrash("TypeError")
             ELSE AskReturn(parsed.val[1])

\* ask_yes_no: one pass of its loop; the answer or a new prompt.  The answers
\* typed are lower-case already, so lower() changes nothing.
ask_yes_no(raw, default_yes) ==
    LET text == strip(raw)
    IN  IF text = <<>> THEN AskReturn(default_yes)
        ELSE IF text \in {<<"y">>, <<"y", "e", "s">>} THEN AskReturn(TRUE)
        ELSE IF text \in {<<"n">>, <<"n", "o">>} THEN AskReturn(FALSE)
        ELSE AskRetry("Please enter y or n.")

\* The prompts of main, in order: the local each fills, its reader and the
\* min_value passed.
PromptsV2 ==
    << [name |-> "hourly_rate",       kind |-> "float", min_value |-> Some(RInt(0))],
       [name |-> "base_hours",        kind |-> "float", min_value |-> Some(RInt(0))],
       [name |-> "ot_hours",          kind |-> "float", min_value |-> Some(RInt(0))],
       [name |-> "ot_mult",           kind |-> "float", min_value |-> Some(RInt(0))],
       [name |-> "tax_percent",       kind |-> "float", min_value |-> Some(RInt(0))],
       [name |-> "monthly_outgoings", kind |-> "float", min_value |-> Some(RInt(0))],
       [name |-> "monthly_loan",      kind |-> "float", min_value |-> Some(RInt(0))],
       [name |-> "weekly_isa",        kind |-> "float", min_value |-> Some(RInt(0))],
       [name |-> "starting_savings",  kind |-> "float", min_value |-> Some(RInt(0))],
       [name |-> "months",            kind |-> "int",   min_value |-> Some(1)],
       [name |-> "target_savings",    kind |-> "float", min_value |-> Some(RInt(0))] >>

PromptsV1 ==
    << [name |-> "hourly_rate",       kind |-> "float", min_value |-> Some(RInt(0))],
       [name |-> "base_rate",         kind |-> "float", min_value |-> Some(RInt(0))],
       [name |-> "ot_hours",          kind |-> "float", min_value |-> Some(RInt(0))],
       [name |-> "ot_mult",           kind |-> "float", min_value |-> Some(RInt(0))],
       [name |-> "tax_percent",       kind |-> "float", min_value |-> Some(RInt(0))],
       [name |-> "monthly_outgoings", kind |-> "float", min_value |-> Some(RInt(0))],
       [name |-> "monthly_loan",      kind |-> "float", min_value |-> Some(RInt(0))],
       [name |-> "weekly_isa",        kind |-> "float", min_value |-> Some(RInt(0))],
       [name |-> "starting_savings",  kind |-> "float", min_value |-> Some(RInt(0))],
       [name |-> "months",            kind |-> "int",   min_value |-> Some(1)] >>

Prompts(p) ==
    IF p = "v1" THEN PromptsV1 ELSE PromptsV2

PromptNames(p) ==
    {Prompts(p)[i].name : i \in 1..Len(Prompts(p))}

(***************************************************************************)
(* Bounds of the model: what is typed at each prompt, the dates today can  *)
(* be, and the longest projection.                                         *)
(***************************************************************************)
MaxMonths == 3

MaxRecord == 26

RECURSIVE Decimal(_)
Decimal(n) ==
    IF n < 10 THEN <<Digits[n + 1]>>
    ELSE Append(Decimal(n \div 10), Digits[(n % 10) + 1])

RawInput(name) ==
    CASE name = "hourly_rate" -> {<<"1", "5">>, <<"a", "b", "c">>}
      [] name \in {"base_hours", "base_rate"} -> {<<"3", "5">>, <<"0">>}
      [] name = "ot_hours" -> {<<"0">>, <<"-", "2">>}
      [] name = "ot_mult" -> {<<"1", ".", "5">>}
      [] name = "tax_percent" -> {<<" ", "2", "0", " ">>}
      [] name = "monthly_outgoings" ->
            {<<"8", "0", "0">>, <<"1", "8", "2", "0">>, <<"0", ".", "0", "0", "4">>}
      [] name = "monthly_loan" -> {<<"2", "0", "0">>, <<"0">>}
      [] name = "weekly_isa" -> {<<"5", "0">>, <<"0">>}
      [] name = "starting_savings" -> {<<"0">>, <<"1", "0", "0", "0">>, <<"-", "5">>}
      [] name = "months" ->
            {Decimal(n) : n \in 0..MaxMonths} \cup {<<"1", ".", "5">>}
      [] name = "target_savings" ->
            {<<"0">>, <<"5", "0", "0">>, <<"1", "0", "0", "0">>, <<"-", "1">>}

RawYesNo ==
    {<<>>, <<"y">>, <<"n", "o">>, <<"m", "a", "y", "b", "e">>}

\* The dates date.today() returns in the runs of main.
Today ==
    { [year |-> 2024, month |-> 1,  day |-> 15],
      [year |-> 2024, month |-> 1,  day |-> 31],
      [year |-> 2023, month |-> 12, day |-> 31] }

\* The start dates of the date runs: every calendar date of these years.
Years == {1900, 2000, 2023, 2024}

AllDates ==
    {d \in [year : Years, month : 1..12, day : 1..31] :
        d.day <= GregorianDaysIn(d.year, d.month)}

(***************************************************************************)
(* State: which script runs, where it is, and the locals of main.          *)
(***************************************************************************)
VARIABLES
    prog,                  \* "v1": budget_simulator.py, "v2": budget_simulator_v2.py
    pc,                    \* "ask", "calc", "project", "loop", "export", "done", "crashed"
    k,                     \* index of the prompt being asked
    inputs,                \* the locals filled by the prompts, None until returned
    printed,               \* what the last pass of a reader printed, "" if nothing
    gross_week, gross_month, tax_rate, net_month,
    isa_month, expenses_month, leftover_month,
    savings, savings_before, change,
    m,                     \* the loop index of the last iteration run, 0 before the loop
    start_date, month_date,
    goal_hit_month_index,
    rows,
    hit_date, short_by,
    result,                \* the messages of the result section
    csv                    \* the exported file: None, or its header and rows

askVars == <<k, inputs, printed>>

calcVars == <<gross_week, gross_month, tax_rate, net_month,
              isa_month, expenses_month, leftover_month>>

loopVars == <<savings, savings_before, change, m, start_date, month_date,
              goal_hit_month_index, rows>>

reportVars == <<hit_date, short_by, result>>

vars == <<prog, pc, askVars, calcVars, loopVars, reportVars, csv>>

InitProg(p) ==
    /\ prog = p
    /\ pc = "ask"
    /\ k = 1
    /\ inputs = [n \in PromptNames(p) |-> None]
    /\ printed = ""
    /\ gross_week = None /\ gross_month = None /\ tax_rate = None
    /\ net_month = None /\ isa_month = None /\ expenses_month = None
    /\ leftover_month = None
    /\ savings = None /\ savings_before = None /\ change = None
    /\ m = 0
    /\ start_date = None /\ month_date = None
    /\ goal_hit_month_index = None
    /\ rows = <<>>
    /\ hit_date = None /\ short_by = None /\ result = <<>>
    /\ csv = None

Init ==
    \E p \in {"v1", "v2"} : InitProg(p)

(***************************************************************************)
(* Input: one pass of the reader's loop per step.                          *)
(***************************************************************************)
Answer(r, name, last) ==
    CASE r.kind = "return" ->
            /\ inputs' = [inputs EXCEPT ![name] = r.val[1]]
            /\ printed' = ""
            /\ IF last THEN pc' = "calc" /\ k' = k
                       ELSE pc' = pc /\ k' = k + 1
      [] r.kind = "retry" ->
            /\ printed' = r.msg
            /\ UNCHANGED <<inputs, pc, k>>
      [] r.kind = "crash" ->
            /\ printed' = r.msg
            /\ pc' = "crashed"
            /\ UNCHANGED <<inputs, k>>

AskFloat ==
    /\ prog = "v2" /\ pc = "ask"
    /\ PromptsV2[k].kind = "float"
    /\ \E raw \in RawInput(PromptsV2[k].name) :
          Answer(ask_float(raw, PromptsV2[k].min_value),
                 PromptsV2[k].name, k = Len(PromptsV2))
    /\ UNCHANGED <<prog, calcVars, loopVars, reportVars, csv>>

AskInt ==
    /\ prog = "v2" /\ pc = "ask"
    /\ PromptsV2[k].kind = "int"
    /\ \E raw \in RawInput(PromptsV2[k].name) :
          Answer(ask_int(raw, PromptsV2[k].min_value),
                 PromptsV2[k].name, k = Len(PromptsV2))
    /\ UNCHANGED <<prog, calcVars, loopVars, reportVars, csv>>

AskFloatV1 ==
    /\ prog = "v1" /\ pc = "ask"
    /\ PromptsV1[k].kind = "float"
    /\ \E raw \in RawInput(PromptsV1[k].name) :
          Answer(ask_float_v1(raw, PromptsV1[k].min_value),
                 PromptsV1[k].name, k = Len(PromptsV1))
    /\ UNCHANGED <<prog, calcVars, loopVars, reportVars, csv>>

AskIntV1 ==
    /\ prog = "v1" /\ pc = "ask"
    /\ PromptsV1[k].kind = "int"
    /\ \E raw \in RawInput(PromptsV1[k].name) :
          Answer(ask_int_v1(raw, PromptsV1[k].min_value),
                 PromptsV1[k].name, k = Len(PromptsV1))
    /\ UNCHANGED <<prog, calcVars, loopVars, reportVars, csv>>

(***************************************************************************)
(* Calculations.                                                           *)
(***************************************************************************)
CalculateWith(hours) ==
    /\ gross_week' = weekly_gross(inputs["hourly_rate"], hours,
                                  inputs["ot_hours"], inputs["ot_mult"])
    /\ gross_month' = monthly_from_weekly(gross_week')
    /\ tax_rate' = tax_rate_of(inputs["tax_percent"])
    /\ net_month' = net_of(gross_month', tax_rate')
    /\ isa_month' = monthly_from_weekly(inputs["weekly_isa"])
    /\ expenses_month' = expenses_of(inputs["monthly_outgoings"],
                                     inputs["monthly_loan"], isa_month')
    /\ leftover_month' = leftover_of(net_month', expenses_month')
    /\ pc' = "project"
    /\ UNCHANGED <<prog, askVars, loopVars, reportVars, csv>>

Calculate ==
    /\ prog = "v2" /\ pc = "calc"
    /\ CalculateWith(inputs["base_hours"])

CalculateV1 ==
    /\ prog = "v1" /\ pc = "calc"
    /\ CalculateWith(inputs["base_rate"])

(***************************************************************************)
(* Projection.                                                             *)
(***************************************************************************)
StartProjection ==
    /\ prog = "v2" /\ pc = "project"
    /\ savings' = inputs["starting_savings"]
    /\ \E today \in Today : start_date' = today
    /\ goal_hit_month_index' = None
    /\ rows' = <<>>
    /\ pc' = "loop"
    /\ UNCHANGED <<prog, askVars, calcVars, savings_before, change, m, month_date,
                   reportVars, csv>>

StartProjectionV1 ==
    /\ prog = "v1" /\ pc = "project"
    /\ savings' = inputs["starting_savings"]
    /\ pc' = "loop"
    /\ UNCHANGED <<prog, askVars, calcVars, savings_before, change, m, start_date,
                   month_date, goal_hit_month_index, rows, reportVars, csv>>

\* Variant: range(1, months + 2).
loop_continues_inclusive(ran, horizon) ==
    ran <= horizon

\* for m in range(1, months + 1): another iteration follows `ran` iterations.
loop_continues(ran, horizon) ==
    ran < horizon

\* Variant: savings = leftover_month.
accrue_assign(balance, leftover) ==
    leftover

\* Variant: savings -= leftover_month.
accrue_subtract(balance, leftover) ==
    RSub(balance, leftover)

accrue(balance, leftover) ==
    RAdd(balance, leftover)

\* Variant: the hit month overwritten by every later month at or over target.
goal_update_overwrite(goal, month, balance, target) ==
    IF RGe(balance, target) THEN Some(month) ELSE goal

\* Variant: the target must be exceeded.
goal_update_strict(goal, month, balance, target) ==
    IF goal = None /\ RLt(target, balance) THEN Some(month) ELSE goal

goal_update(goal, month, balance, target) ==
    IF goal = None /\ RGe(balance, target) THEN Some(month) ELSE goal

make_row(month, mdate, balance) ==
    [ month_number            |-> month,
      month_date              |-> isoformat(mdate),
      gross_month             |-> round2(gross_month),
      net_month               |-> round2(net_month),
      isa_month               |-> round2(isa_month),
      fixed_outgoings         |-> round2(inputs["monthly_outgoings"]),
      loan_payments           |-> round2(inputs["monthly_loan"]),
      total_expenses_plus_isa |-> round2(expenses_month),
      leftover_month          |-> round2(leftover_month),
      savings_end             |-> round2(balance) ]

LoopIter ==
    /\ prog = "v2" /\ pc = "loop"
    /\ loop_continues(m, inputs["months"])
    /\ m' = m + 1
    /\ savings_before' = savings
    /\ savings' = accrue(savings, leftover_month)
    /\ change' = RSub(savings', savings_before')
    /\ LET made == add_months(start_date, m' - 1)
       IN  IF made.exc = ""
           THEN /\ month_date' = made.val[1]
                /\ rows' = Append(rows, make_row(m', month_date', savings'))
                /\ goal_hit_month_index' =
                      goal_update(goal_hit_month_index, m', savings',
                                  inputs["target_savings"])
                /\ pc' = pc
           ELSE /\ pc' = "crashed"
                /\ UNCHANGED <<month_date, rows, goal_hit_month_index>>
    /\ UNCHANGED <<prog, askVars, calcVars, start_date, reportVars, csv>>

LoopIterV1 ==
    /\ prog = "v1" /\ pc = "loop"
    /\ loop_continues(m, inputs["months"])
    /\ m' = m + 1
    /\ savings_before' = savings
    /\ savings' = accrue(savings, leftover_month)
    /\ change' = RSub(savings', savings_before')
    /\ UNCHANGED <<prog, pc, askVars, calcVars, start_date, month_date,
                   goal_hit_month_index, rows, reportVars, csv>>

(***************************************************************************)
(* Result, goal tracking and export.                                       *)
(***************************************************************************)
Warning ==
    IF RLt(leftover_month, RInt(0)) THEN <<"leftover negative">> ELSE <<>>

GoalReport(made) ==
    IF made.exc = ""
    THEN /\ hit_date' = made.val[1]
         /\ result' = <<"Goal hit">> \o Warning
         /\ pc' = "export"
         /\ UNCHANGED short_by
    ELSE /\ pc' = "crashed"
         /\ UNCHANGED <<hit_date, result, short_by>>

Report ==
    /\ prog = "v2" /\ pc = "loop"
    /\ ~loop_continues(m, inputs["months"])
    /\ IF goal_hit_month_index # None
       THEN GoalReport(add_months(start_date, goal_hit_month_index[1] - 1))
       ELSE /\ short_by' = RSub(inputs["target_savings"], savings)
            /\ result' = <<"Goal not hit">> \o Warning
            /\ pc' = "export"
            /\ UNCHANGED hit_date
    /\ UNCHANGED <<prog, askVars, calcVars, loopVars, csv>>

ReportV1 ==
    /\ prog = "v1" /\ pc = "loop"
    /\ ~loop_continues(m, inputs["months"])
    /\ result' = IF RLt(leftover_month, RInt(0))
                 THEN <<"leftover negative">>
                 ELSE <<"trending upward">>
    /\ pc' = "done"
    /\ UNCHANGED <<prog, askVars, calcVars, loopVars, hit_date, short_by, csv>>

fieldnames ==
    IF rows # <<>>
    THEN <<"month_number", "month_date", "gross_month", "net_month", "isa_month",
           "fixed_outgoings", "loan_payments", "total_expenses_plus_isa",
           "leftover_month", "savings_end">>
    ELSE <<>>

Export ==
    /\ prog = "v2" /\ pc = "export"
    /\ \E raw \in RawYesNo :
          LET r == ask_yes_no(raw, TRUE)
          IN  IF r.kind = "retry"
              THEN /\ printed' = r.msg
                   /\ UNCHANGED <<pc, csv>>
              ELSE /\ printed' = ""
                   /\ pc' = "done"
                   /\ IF r.val[1]
                      THEN \/ csv' = Some([header |-> fieldnames, body |-> rows])
                           \/ /\ csv' = None
                              /\ printed' = "Could not write CSV file"
                      ELSE csv' = None
    /\ UNCHANGED <<prog, k, inputs, calcVars, loopVars, reportVars>>

Next ==
    \/ AskFloat
    \/ AskInt
    \/ Calculate
    \/ StartProjection
    \/ LoopIter
    \/ Report
    \/ Export
    \/ AskFloatV1
    \/ AskIntV1
    \/ CalculateV1
    \/ StartProjectionV1
    \/ LoopIterV1
    \/ ReportV1

Spec ==
    Init /\ [][Next]_vars

(***************************************************************************)
(* The date runs: the projection of V2 with the amounts fixed, from every  *)
(* start date of AllDates, over MaxRecord months.                          *)
(***************************************************************************)
DateRunInputs ==
    [ hourly_rate       |-> RInt(15),
      base_hours        |-> RInt(35),
      ot_hours          |-> RInt(0),
      ot_mult           |-> Rat(3, 2),
      tax_percent       |-> RInt(20),
      monthly_outgoings |-> RInt(800),
      monthly_loan      |-> RInt(200),
      weekly_isa        |-> RInt(50),
      starting_savings  |-> RInt(0),
      months            |-> MaxRecord,
      target_savings    |-> RInt(1000) ]

InitDates ==
    /\ prog = "v2"
    /\ pc = "loop"
    /\ k = Len(PromptsV2)
    /\ inputs = DateRunInputs
    /\ printed = ""
    /\ gross_week = weekly_gross(inputs["hourly_rate"], inputs["base_hours"],
                                 inputs["ot_hours"], inputs["ot_mult"])
    /\ gross_month = monthly_from_weekly(gross_week)
    /\ tax_rate = tax_rate_of(inputs["tax_percent"])
    /\ net_month = net_of(gross_month, tax_rate)
    /\ isa_month = monthly_from_weekly(inputs["weekly_isa"])
    /\ expenses_month = expenses_of(inputs["monthly_outgoings"],
                                    inputs["monthly_loan"], isa_month)
    /\ leftover_month = leftover_of(net_month, expenses_month)
    /\ savings = inputs["starting_savings"]
    /\ savings_before = None /\ change = None
    /\ m = 0
    /\ start_date \in AllDates
    /\ month_date = None
    /\ goal_hit_month_index = None
    /\ rows = <<>>
    /\ hit_date = None /\ short_by = None /\ result = <<>>
    /\ csv = None

NextDates ==
    \/ LoopIter
    \/ Report
    \/ Export

SpecDates ==
    InitDates /\ [][NextDates]_vars

(***************************************************************************)
(* Properties.                                                             *)
(***************************************************************************)
Starting == inputs["starting_savings"]

Target == inputs["target_savings"]

Horizon == inputs["months"]

\* The projection of V2 is under way or over: its locals are set.
Projecting ==
    prog = "v2" /\ pc \in {"loop", "export", "done"}

\* The last iteration of the loop of V2 has run.
LoopOver ==
    Projecting /\ m >= Horizon

\* The closed form of the balance at the end of month i.
Balance(i) ==
    RAdd(Starting, RMul(RInt(i), leftover_month))

HitMonths ==
    {i \in 1..Horizon : RGe(Balance(i), Target)}

\* C1: once the loop of V2 is over, goal_hit_month_index is the smallest month
\* of 1..horizon whose closed-form balance is at or over target_savings, every
\* earlier month is under target, and it is None exactly when no month of
\* 1..horizon is at or over target.
C1_GoalIsFirstHit ==
    LoopOver =>
        /\ (goal_hit_month_index = None) <=> (HitMonths = {})
        /\ goal_hit_month_index # None =>
              /\ goal_hit_month_index[1] \in HitMonths
              /\ \A i \in HitMonths : goal_hit_month_index[1] <= i
              /\ \A i \in 1..(goal_hit_month_index[1] - 1) :
                    RLt(Balance(i), Target)

\* A run whose goal is first met in month 2 and met again in month 3.
C1_Witness ==
    /\ LoopOver
    /\ goal_hit_month_index = Some(2)
    /\ 3 \in HitMonths

\* The savings_end recorded before row i: starting_savings before row 1.
RecordedBefore(i) ==
    IF i = 1 THEN Starting ELSE rows[i - 1].savings_end

\* C2 as stated: the savings_end recorded for month i equals the savings_end
\* recorded for month i-1 plus leftover_month, starting_savings preceding
\* month 1.
C2_RecordedRecurrence ==
    Projecting =>
        \A i \in 1..Len(rows) :
            rows[i].savings_end = RAdd(RecordedBefore(i), leftover_month)

\* C2 as amended: in V1 and V2, after iteration m the running balance is the
\* balance before the iteration plus leftover_month, which is
\* starting_savings + m * leftover_month; the savings_end recorded in row i is
\* the balance of month i rounded to two decimals.
C2_RunningBalance ==
    pc \in {"loop", "export", "done"} =>
        /\ savings = Balance(m)
        /\ m >= 1 => /\ savings = RAdd(savings_before, leftover_month)
                     /\ savings_before = Balance(m - 1)
        /\ \A i \in 1..Len(rows) : rows[i].savings_end = round2(Balance(i))

\* Two months recorded with a leftover that is no whole number of pence.
C2_Witness ==
    /\ Projecting
    /\ Len(rows) >= 2
    /\ leftover_month[2] = 3
    /\ rows[2].savings_end # savings

\* The calendar month n months after the month of d, counted in months since
\* year 0, with the day of d cut to the length of that month.
MonthsAfter(d, n) ==
    LET ord == d.year * 12 + (d.month - 1) + n
        y   == ord \div 12
        mo  == (ord % 12) + 1
    IN  [year  |-> y,
         month |-> mo,
         day   |-> IF d.day <= GregorianDaysIn(y, mo)
                   THEN d.day ELSE GregorianDaysIn(y, mo)]

\* The date an ISO text YYYY-MM-DD reads as.
FromIso(text) ==
    [year  |-> int_parse(SubSeq(text, 1, 4)).val[1],
     month |-> int_parse(SubSeq(text, 6, 7)).val[1],
     day   |-> int_parse(SubSeq(text, 9, 10)).val[1]]

\* C3: from every start date, the month_date of record i is the start date
\* advanced by exactly i-1 calendar months with its day cut to the length of
\* the target month under the Gregorian leap-year rule: a calendar date of
\* that month, never one of the month after (2024-01-31 is followed by
\* 2024-02-29, 2023-01-31 by 2023-02-28), and the day of the start date comes
\* back after a shorter month.
C3_MonthDateClamped ==
    /\ pc # "crashed"
    /\ Projecting =>
          /\ \A i \in 1..Len(rows) :
                LET want == MonthsAfter(start_date, i - 1)
                IN  /\ Len(rows[i].month_date) = 10
                    /\ FromIso(rows[i].month_date) = want
                    /\ want.day \in 1..GregorianDaysIn(want.year, want.month)
                    /\ (start_date.day <= GregorianDaysIn(want.year, want.month))
                          => FromIso(rows[i].month_date).day = start_date.day
          /\ m >= 1 => month_date = MonthsAfter(start_date, m - 1)
          /\ (start_date = [year |-> 2024, month |-> 1, day |-> 31] /\ m >= 2)
                => rows[2].month_date = <<"2", "0", "2", "4", "-", "0", "2", "-", "2", "9">>
          /\ (start_date = [year |-> 2023, month |-> 1, day |-> 31] /\ m >= 2)
                => rows[2].month_date = <<"2", "0", "2", "3", "-", "0", "2", "-", "2", "8">>

\* From 2024-01-31: February is cut to the 29th and March is the 31st again.
C3_Witness ==
    /\ Projecting
    /\ start_date = [year |-> 2024, month |-> 1, day |-> 31]
    /\ Len(rows) >= 3
    /\ FromIso(rows[2].month_date) = [year |-> 2024, month |-> 2, day |-> 29]
    /\ FromIso(rows[3].month_date) = [year |-> 2024, month |-> 3, day |-> 31]

\* C7: when the start date is not a February 29, the date a multiple of 12
\* months later (add_months(d, 12), add_months(d, 24)) has the month and the
\* day of the start date and a year greater by the number of twelves.
C7_TwelveMonthsIsOneYear ==
    (Projecting /\ m >= 1 /\ (m - 1) % 12 = 0
       /\ ~(start_date.month = 2 /\ start_date.day = 29)) =>
        /\ month_date.month = start_date.month
        /\ month_date.day = start_date.day
        /\ month_date.year = start_date.year + ((m - 1) \div 12)
        /\ FromIso(rows[m].month_date) = month_date

\* add_months(d, 12) computed for a 31 December.
C7_Witness ==
    /\ Projecting
    /\ m = 13
    /\ start_date = [year |-> 2023, month |-> 12, day |-> 31]
    /\ month_date = [year |-> 2024, month |-> 12, day |-> 31]

Zero == RInt(0)

\* C4 as stated: whenever starting_savings is at or over target_savings, the
\* goal is reported hit at month 1, whatever the leftover and the horizon.
C4_AlreadyMetHitsMonthOne ==
    (LoopOver /\ RGe(Starting, Target)) => goal_hit_month_index = Some(1)

\* C4 as amended: the goal is reported hit at month 1 exactly when the balance
\* after the first accrual, starting_savings + leftover_month, is at or over
\* target_savings; so it is whenever starting_savings is at or over target and
\* leftover_month is not negative, and with a negative leftover only while the
\* first month's balance stays at or over target.
C4_MonthOneAfterAccrual ==
    LoopOver =>
        /\ (goal_hit_month_index = Some(1))
              <=> RGe(RAdd(Starting, leftover_month), Target)
        /\ (RGe(Starting, Target) /\ RGe(leftover_month, Zero))
              => goal_hit_month_index = Some(1)

\* Savings over target and a negative leftover that leaves month 1 over target.
C4_Witness ==
    /\ LoopOver
    /\ RLt(Target, Starting)
    /\ RLt(leftover_month, Zero)
    /\ goal_hit_month_index = Some(1)

\* The case of C5: a negative leftover, a positive target, savings not negative.
Deficit ==
    /\ Projecting
    /\ RLt(leftover_month, Zero)
    /\ RLt(Zero, Target)
    /\ RGe(Starting, Zero)

\* C5 as stated: with a negative leftover, a positive target and savings not
\* negative, the goal is still None when the projection ends and the
\* shortfall reported is positive.
C5_DeficitNeverHits ==
    (Deficit /\ LoopOver) =>
        /\ goal_hit_month_index = None
        /\ pc \in {"export", "done"} =>
              /\ short_by # None
              /\ RLt(Zero, short_by)

\* C5 as amended: with a negative leftover the balance falls in every month;
\* the goal is None at the end exactly when the positive target is over
\* starting_savings + leftover_month, and then the shortfall reported is
\* target_savings minus the final balance and is positive; a target at or
\* under starting_savings + leftover_month is reported hit at month 1.
C5_DeficitHitsOnlyAtStart ==
    Deficit =>
        /\ m >= 1 => /\ RLt(savings, savings_before)
                     /\ RLt(change, Zero)
        /\ LoopOver =>
              /\ (goal_hit_month_index = None)
                    <=> RLt(RAdd(Starting, leftover_month), Target)
              /\ goal_hit_month_index # None => goal_hit_month_index = Some(1)
        /\ (LoopOver /\ pc \in {"export", "done"} /\ goal_hit_month_index = None) =>
              /\ short_by = RSub(Target, Balance(Horizon))
              /\ RLt(Zero, short_by)

\* A deficit run that ends with no goal hit and its shortfall reported.
C5_Witness ==
    /\ Deficit
    /\ pc = "done"
    /\ m >= 2
    /\ goal_hit_month_index = None
    /\ RLt(Zero, short_by)

\* Prompt i has returned its value.
Answered(i) ==
    i < k \/ pc # "ask"

\* C6: every value the input boundary has returned is at or over the min_value
\* it was called with, in V1 and in V2, and the loop runs with months >= 1.
C6_ReturnedAtLeastMin ==
    /\ \A i \in 1..Len(Prompts(prog)) :
          Answered(i) =>
              LET p == Prompts(prog)[i]
              IN  IF p.kind = "int"
                  THEN inputs[p.name] >= p.min_value[1]
                  ELSE RGe(inputs[p.name], p.min_value[1])
    /\ pc = "loop" => Horizon >= 1

\* C8 as stated: the balance recorded at the end of each month is over the one
\* recorded before it when leftover_month is positive, under it when negative
\* and equal to it when zero, starting_savings standing before month 1.
C8_RecordedStrictlyMonotone ==
    Projecting =>
        \A i \in 1..Len(rows) :
            /\ RLt(Zero, leftover_month)
                  => RLt(RecordedBefore(i), rows[i].savings_end)
            /\ RLt(leftover_month, Zero)
                  => RLt(rows[i].savings_end, RecordedBefore(i))
            /\ leftover_month = Zero
                  => rows[i].savings_end = RecordedBefore(i)

\* C8 as amended: in V1 and V2 the running balance after each iteration is
\* over the balance before it when leftover_month is positive, under it when
\* negative and equal to it when zero, from starting_savings on; the
\* savings_end recorded, rounded to two decimals, never moves the other way
\* but can repeat.
C8_RunningStrictlyMonotone ==
    (pc \in {"loop", "export", "done"} /\ m >= 1) =>
        /\ RLt(Zero, leftover_month) => RLt(savings_before, savings)
        /\ RLt(leftover_month, Zero) => RLt(savings, savings_before)
        /\ leftover_month = Zero => savings = savings_before
        /\ m = 1 => savings_before = Starting
        /\ \A i \in 1..Len(rows) :
              /\ RLt(Zero, leftover_month)
                    => RGe(rows[i].savings_end, round2(RecordedBefore(i)))
              /\ RLt(leftover_month, Zero)
                    => RGe(round2(RecordedBefore(i)), rows[i].savings_end)
              /\ leftover_month = Zero
                    => rows[i].savings_end = round2(RecordedBefore(i))

\* A falling balance whose recorded value repeats from month 2 to month 3.
C8_Witness ==
    /\ Projecting
    /\ Len(rows) >= 3
    /\ RLt(leftover_month, Zero)
    /\ RLt(savings, savings_before)
    /\ rows[3].savings_end = rows[2].savings_end

\* C9: the loop of V2 ends after exactly horizon iterations and leaves exactly
\* horizon rows, appended in order with month_number 1, 2, ..., horizon.
C9_OneRowPerMonth ==
    Projecting =>
        /\ Horizon >= 1
        /\ m <= Horizon
        /\ Len(rows) = m
        /\ \A i \in 1..Len(rows) : rows[i].month_number = i
        /\ pc \in {"export", "done"} => (m = Horizon /\ Len(rows) = Horizon)
        /\ csv # None => Len(csv[1].body) = Horizon

\* A projection of three months ended with its three rows.
C9_Witness ==
    /\ Projecting
    /\ pc = "done"
    /\ Horizon = 3
    /\ Len(rows) = 3
    /\ rows[3].month_number = 3

\* The inputs of the scenario of C10.
ScenarioInputs ==
    [ hourly_rate       |-> RInt(15),
      base_hours        |-> RInt(35),
      ot_hours          |-> RInt(0),
      ot_mult           |-> Rat(3, 2),
      tax_percent       |-> RInt(20),
      monthly_outgoings |-> RInt(800),
      monthly_loan      |-> RInt(200),
      weekly_isa        |-> RInt(50),
      starting_savings  |-> RInt(0),
      months            |-> 3,
      target_savings    |-> RInt(1000) ]

Scenario ==
    /\ prog = "v2"
    /\ pc \in {"project", "loop", "export", "done"}
    /\ inputs = ScenarioInputs

ScenarioStarted ==
    /\ Scenario
    /\ pc # "project"
    /\ start_date = [year |-> 2024, month |-> 1, day |-> 15]

\* C10: for the scenario's inputs and a start on 2024-01-15 the calculation
\* gives gross_week 525, gross_month 2275, net_month 1820, contribution
\* 650/3, expenses 3650/3, leftover 1810/3, balances 1810/3, 3620/3, 5430/3
\* after months 1, 2, 3, and a goal hit in month 2, dated 2024-02-15.
C10_Scenario ==
    /\ Scenario =>
          /\ gross_week = <<525, 1>>
          /\ gross_month = <<2275, 1>>
          /\ net_month = <<1820, 1>>
          /\ isa_month = <<650, 3>>
          /\ expenses_month = <<3650, 3>>
          /\ leftover_month = <<1810, 3>>
    /\ ScenarioStarted =>
          /\ m = 1 => savings = <<1810, 3>>
          /\ m = 2 => savings = <<3620, 3>>
          /\ m = 3 => /\ savings = <<1810, 1>>
                      /\ savings[1] * 3 = 5430 * savings[2]
          /\ m >= 2 =>
                /\ goal_hit_month_index = Some(2)
                /\ rows[2].month_date
                      = <<"2", "0", "2", "4", "-", "0", "2", "-", "1", "5">>
          /\ m < 2 => goal_hit_month_index = None
          /\ pc \in {"export", "done"} =>
                hit_date = [year |-> 2024, month |-> 2, day |-> 15]

\* The scenario run to its end.
C10_Witness ==
    /\ ScenarioStarted
    /\ pc = "done"
    /\ m = 3
    /\ goal_hit_month_index = Some(2)

====
